---- MODULE Spec2Model ----
(***************************************************************************)
(* TaskFlow Pro: the task hierarchy (tasks, subtasks, comments,            *)
(* attachments) and the request handlers that create, update, complete     *)
(* and delete tasks, as a state machine over the persisted tables.         *)
(*                                                                         *)
(* One action is one HTTP request: the handler runs in one ORM session and *)
(* the action's primed variables are what db.session.commit() persists.    *)
(* A handler that returns without committing persists nothing: the scoped  *)
(* session is discarded when the request ends.                             *)
(*                                                                         *)
(* Abstractions: datetime.utcnow() is the single non-null value "utcnow";  *)
(* a null foreign key is 0 (the handlers treat a falsy id as "no parent"); *)
(* a Python string that the code takes apart (a tag, the tags column) is   *)
(* the sequence of its characters; hours are integers; description,        *)
(* due_date, category and project_id are not stored in the model.          *)
(***************************************************************************)
EXTENDS Integers, FiniteSets, Sequences, TLC

\* ------------------------------------------------------------------ bounds
MaxId == 3              \* task ids are 1..MaxId; a create needing more is not taken
MaxComments == 1        \* rows in task_comments
MaxAttachments == 1     \* rows in task_attachments
MaxOps == 3             \* requests per behaviour of Spec
MaxOpsDelete == 4       \* requests per behaviour of SpecDelete
MaxOpsComplete == 3     \* requests per behaviour of SpecComplete
MaxOpsCascade == 5      \* requests per behaviour of SpecCascade
MaxOpsToggle == 4       \* requests per behaviour of SpecToggle
MaxOpsRollback == 4     \* requests per behaviour of SpecRollback
MaxOpsValidate == 3     \* requests per behaviour of SpecValidate
MaxOpsTags == 2         \* requests per behaviour of SpecTags
MaxOpsProgress == 1     \* requests per behaviour of SpecProgress
MaxTagLen == 2          \* characters in one tag of a request
MaxTags == 2            \* tags in the list of a request
MaxSubtasks == 50       \* subtasks of the task SpecProgress starts with
MaxOpsGraph == 1        \* requests per behaviour of SpecGraph
MaxProjects == 2         \* project ids are 1..MaxProjects
MaxOpsProject == 3      \* requests per behaviour of SpecProject
MaxOpsUser == 4         \* requests per behaviour of SpecUser
MaxInFlight == 2        \* requests handled side by side
MaxOpsRegister == 3     \* requests per behaviour of SpecRegister
MaxOpsRace == 3         \* requests per behaviour of SpecRace
MaxOpsRow == 3          \* requests per behaviour of SpecRow
MaxOpsFrame == 3        \* requests per behaviour of SpecFrame
MaxOpsTitle == 3        \* requests per behaviour of SpecTitle
MaxDepth == 5           \* frames of Task.mark_completed the interpreter allows

\* ------------------------------------------------------------ value sets
Users == {"A", "B"}                     \* registered, logged-in users
Ids == 1..MaxId
TaskPriority == {"low", "medium", "high", "urgent"}
TaskStatus == {"todo", "in_progress", "review", "done"}
Absent == "absent"                      \* key not present in the form / JSON body

\* request inputs
TitleInputs == {"", "a"}
\* the titles a create request can carry: none, empty, blank, a word
CreateTitleInputs == {Absent, "", " ", "a"}
PriorityInputs == {Absent, "bogus"}
StatusInputs == {Absent, "in_progress", "done", "bogus"}
\* JSON values a body can carry under is_completed
CompletedInputs == {Absent, "true", "false", "str_false"}
ParentInputs == 0..MaxId
ContentInputs == {"", "c"}

\* an optional value: None, or the one value that is there
None == << >>
Some(x) == <<x>>

\* the characters of a tag: a letter, whitespace and the delimiter
Chars == {"a", " ", ","}
RECURSIVE SeqsUpTo(_, _)
SeqsUpTo(S, n) ==
    IF n = 0 THEN {<< >>}
    ELSE LET shorter == SeqsUpTo(S, n - 1)
         IN shorter \cup {Append(q, x) : q \in shorter, x \in S}
TagStrings == SeqsUpTo(Chars, MaxTagLen)
\* what a JSON body carries under tags: no key, null, or a list of strings
ApiTagsInputs ==
    {[present |-> FALSE, value |-> None], [present |-> TRUE, value |-> None]}
    \cup {[present |-> TRUE, value |-> Some(L)] : L \in SeqsUpTo(TagStrings, MaxTags)}
\* the tags field of a form: one string ('' when the field is not sent)
FormTagsInputs == SeqsUpTo(Chars, MaxTagLen + 1)
\* estimated_hours / actual_hours of a request: no key, or a number
HoursInputs == {None, Some(-1), Some(2)}
\* the fields of a JSON body and of a form beside title, priority, status,
\* is_completed and parent_task_id; NoMore and NoForm carry none of them
NoMore == [estimated_hours |-> None, actual_hours |-> None,
           tags |-> [present |-> FALSE, value |-> None], project_id |-> None]
NoForm == [estimated_hours |-> None, actual_hours |-> None, tags |-> << >>,
           project_id |-> None]
\* project_id in a body or a form: not there, null or 0, or an id
ProjectInputs == {None} \cup {Some(p) : p \in 0..MaxProjects}

VARIABLES
    tasks,          \* table tasks: id -> row
    comments,       \* table task_comments: set of rows
    attachments,    \* table task_attachments: set of rows
    budget,         \* requests the behaviour may still make
    last,           \* the last request and its response
    users,          \* table users: set of rows
    projects,       \* table projects: set of rows
    call,           \* the call of Task.mark_completed that is running
    inflight        \* the requests being handled side by side, each with its session

vars == <<tasks, comments, attachments, budget, last, users, projects, call, inflight>>

\* the two accounts whose requests the model follows
Accounts ==
    {[id |-> "A", username |-> "a", email |-> "a@x"],
     [id |-> "B", username |-> "b", email |-> "b@x"]}

\* no call of Task.mark_completed is running
NoCall == [stack |-> << >>, marked |-> << >>]

\* both accounts are registered, there is no project, and no request is
\* being handled
AtRest ==
    /\ users = Accounts
    /\ projects = {}
    /\ call = NoCall
    /\ inflight = << >>

\* --------------------------------------------------------------- helpers
SetMax(S) == IF S = {} THEN 0 ELSE CHOOSE m \in S : \A x \in S : x <= m

\* bool(data['is_completed']) for the JSON values of CompletedInputs:
\* any non-empty string is truthy, so the string "false" is True
PyBool(v) == v \in {"true", "str_false"}

\* TaskPriority(value) / TaskStatus(value) raise ValueError for a string
\* that is no member of the enumeration
RaisesValueError(value, enum) == value # Absent /\ value \notin enum

\* a lookup by id alone: Task.query.get(id)
FindTask_by_id_only(ts, u, id) == id \in DOMAIN ts

\* Task.query.filter_by(id=id, user_id=current_user.id).first()
FindTask(ts, u, id) == id \in DOMAIN ts /\ ts[id].user_id = u

\* self.subtasks: the rows whose parent_task_id is this task's id
Subtasks(ts, id) == {c \in DOMAIN ts : ts[c].parent_task_id = id}

\* the id the database gives the next inserted task. The store is the
\* SQLite file the application documents (orphaned rows are possible, so
\* foreign keys are not enforced): id is the rowid, max(rowid)+1
NextId == SetMax(DOMAIN tasks) + 1

\* Task.__init__ and the column defaults
NewTask(title, priority, u, parent) ==
    [title |-> title, priority |-> priority, status |-> "todo",
     is_completed |-> FALSE, completed_at |-> "None",
     estimated_hours |-> 0, actual_hours |-> 0, tags |-> None,
     user_id |-> u, parent_task_id |-> parent, project_id |-> 0]

\* ---------------------------------------------------------------- strings
\* str.strip(): whitespace is removed from both ends
RECURSIVE LStrip(_), RStrip(_), Split(_), Join(_)
LStrip(s) == IF s # << >> /\ Head(s) = " " THEN LStrip(Tail(s)) ELSE s
RStrip(s) == IF s # << >> /\ s[Len(s)] = " " THEN RStrip(SubSeq(s, 1, Len(s) - 1)) ELSE s
Strip(s) == RStrip(LStrip(s))

\* str.split(','): the pieces between the commas; '' gives ['']
Split(s) ==
    IF \A i \in 1..Len(s) : s[i] # ","
    THEN <<s>>
    ELSE LET i == CHOOSE k \in 1..Len(s) : s[k] = "," /\ \A j \in 1..(k - 1) : s[j] # ","
         IN <<SubSeq(s, 1, i - 1)>> \o Split(SubSeq(s, i + 1, Len(s)))

\* ','.join(list)
Join(L) ==
    IF L = << >> THEN << >>
    ELSE IF Len(L) = 1 THEN L[1]
    ELSE L[1] \o <<",">> \o Join(Tail(L))

\* [tag.strip() for tag in L if tag.strip()]
StripNonEmpty(L) ==
    LET IsKept(t) == t # << >>
    IN SelectSeq([i \in 1..Len(L) |-> Strip(L[i])], IsKept)

\* Task.get_tags_list on a row: a NULL or empty column gives []
get_tags_list(t) ==
    IF t.tags = None \/ t.tags = Some(<< >>)
    THEN << >>
    ELSE StripNonEmpty(Split(t.tags[1]))

\* Task.set_tags on a row; tags_list is None or Some(list)
set_tags(t, tags_list) ==
    IF tags_list # None /\ tags_list[1] # << >>
    THEN [t EXCEPT !.tags = Some(Join(StripNonEmpty(tags_list[1])))]
    ELSE [t EXCEPT !.tags = Some(<< >>)]

\* ----------------------------------------------------- float arithmetic
\* Python's float is the IEEE 754 double: a result is rounded to
\* MantissaBits significant bits, to nearest, ties to even. A number is a
\* sequence of bits, most significant first, and a scale: bits / 2^scale.
MantissaBits == 53

RECURSIVE QuotientBits(_, _, _), RemainderAfter(_, _, _), Exponent(_, _)
\* the first k bits after the binary point of r / n, for 0 <= r < n
QuotientBits(r, n, k) ==
    IF k = 0 THEN << >>
    ELSE IF 2 * r >= n THEN <<1>> \o QuotientBits(2 * r - n, n, k - 1)
    ELSE <<0>> \o QuotientBits(2 * r, n, k - 1)
\* what is left of r after those k bits
RemainderAfter(r, n, k) ==
    IF k = 0 THEN r
    ELSE IF 2 * r >= n THEN RemainderAfter(2 * r - n, n, k - 1)
    ELSE RemainderAfter(2 * r, n, k - 1)
\* the position after the point of the first 1 bit of r / n, for 0 < r < n
Exponent(r, n) == IF 2 * r >= n THEN 1 ELSE 1 + Exponent(2 * r, n)

RECURSIVE IncBits(_), AddBits(_, _, _), DropLeadingZeros(_), BitsToInt(_)
\* bits + 1
IncBits(b) ==
    IF b = << >> THEN <<1>>
    ELSE IF b[Len(b)] = 0 THEN [b EXCEPT ![Len(b)] = 1]
    ELSE Append(IncBits(SubSeq(b, 1, Len(b) - 1)), 0)
\* a + b + carry, for two sequences of the same length
AddBits(a, b, carry) ==
    IF a = << >> THEN IF carry = 1 THEN <<1>> ELSE << >>
    ELSE LET sum == a[Len(a)] + b[Len(b)] + carry
             a1 == SubSeq(a, 1, Len(a) - 1)
             b1 == SubSeq(b, 1, Len(b) - 1)
         IN IF sum >= 2 THEN Append(AddBits(a1, b1, 1), sum - 2)
            ELSE Append(AddBits(a1, b1, 0), sum)
DropLeadingZeros(b) == IF b # << >> /\ Head(b) = 0 THEN DropLeadingZeros(Tail(b)) ELSE b
BitsToInt(b) == IF b = << >> THEN 0 ELSE 2 * BitsToInt(SubSeq(b, 1, Len(b) - 1)) + b[Len(b)]
Zeros(k) == [i \in 1..k |-> 0]
\* b shifted left by k within a width of w bits
Shifted(b, k, w) == Zeros(w - Len(b) - k) \o b \o Zeros(k)

\* round-to-nearest-even of a bit sequence to MantissaBits significant
\* bits: <<kept bits, number of bits dropped>>
RoundBits(bits) ==
    LET b == DropLeadingZeros(bits)
        d == Len(b) - MantissaBits
    IN IF d <= 0 THEN <<b, 0>>
       ELSE LET kept == SubSeq(b, 1, MantissaBits)
                guard == b[MantissaBits + 1]
                sticky == \E i \in (MantissaBits + 2)..Len(b) : b[i] = 1
                up == guard = 1 /\ (sticky \/ kept[MantissaBits] = 1)
            IN <<IF up THEN IncBits(kept) ELSE kept, d>>

\* the double c / n for 0 < c < n: <<bits, scale>>
FloatDiv(c, n) ==
    LET k == Exponent(c, n) + MantissaBits - 1
        q == QuotientBits(c, n, k)
        r == RemainderAfter(c, n, k)
        up == 2 * r > n \/ (2 * r = n /\ q[k] = 1)
    IN <<IF up THEN IncBits(q) ELSE q, k>>

\* int(x * 100) for the double x = <<bits, scale>>: the product
\* 64x + 32x + 4x is rounded to a double and truncated
IntTimes100(x) ==
    LET w == Len(x[1]) + 7
        product == AddBits(AddBits(Shifted(x[1], 6, w), Shifted(x[1], 5, w), 0),
                           Shifted(x[1], 2, w), 0)
        rounded == RoundBits(product)
        whole == Len(rounded[1]) + rounded[2] - x[2]
    IN IF whole <= 0 THEN 0 ELSE BitsToInt(SubSeq(rounded[1], 1, whole))

\* Task.get_progress_percentage: int((completed_subtasks / total_subtasks) * 100)
get_progress_percentage(ts, id) ==
    LET total_subtasks == Cardinality(Subtasks(ts, id))
        completed_subtasks == Cardinality({c \in Subtasks(ts, id) : ts[c].is_completed})
    IN IF total_subtasks = 0
       THEN IF ts[id].is_completed THEN 100 ELSE 0
       ELSE IF completed_subtasks = 0 THEN 0
       ELSE IF completed_subtasks = total_subtasks THEN 100
       ELSE IntTimes100(FloatDiv(completed_subtasks, total_subtasks))

\* the computed entries of Task.to_dict
TaskData(ts, id) ==
    [progress_percentage |-> get_progress_percentage(ts, id),
     tags |-> get_tags_list(ts[id])]

\* what a request did, for the record in last: the response (code, flash
\* or success flag, the tasks serialized into it, with what to_dict computes
\* for each; the message is filled in where a handler reports what was
\* wrong with the request) and the rows it wrote
Response(op, u, id, code, outcome, returned) ==
    [op |-> op, user |-> u, id |-> id, code |-> code,
     outcome |-> outcome, returned |-> returned, message |-> "",
     data |-> [i \in returned \cap DOMAIN tasks' |-> TaskData(tasks', i)],
     updated |-> {i \in DOMAIN tasks \cap DOMAIN tasks' : tasks'[i] # tasks[i]},
     purged |-> Cardinality(comments \ comments') + Cardinality(attachments \ attachments')]

NoRequest ==
    [op |-> "none", user |-> "A", id |-> 0, code |-> 0,
     outcome |-> "none", returned |-> {}, message |-> "", data |-> << >>,
     updated |-> {}, purged |-> 0]

\* to_dict(include_subtasks): the task and, when asked, its direct subtasks
ToDict(ts, id, include_subtasks) ==
    {id} \cup (IF include_subtasks THEN Subtasks(ts, id) ELSE {})

\* ------------------------------------------------------------------ Init
Init ==
    /\ tasks = << >>
    /\ comments = {}
    /\ attachments = {}
    /\ budget = MaxOps
    /\ last = NoRequest
    /\ AtRest

\* a request is handled
Step ==
    /\ budget > 0
    /\ budget' = budget - 1
    /\ UNCHANGED <<users, projects, call, inflight>>

\* a request that commits nothing
Refuse(op, u, id, code) ==
    /\ UNCHANGED <<tasks, comments, attachments>>
    /\ last' = Response(op, u, id, code, "error", {})

\* a request that commits nothing and tells the caller what was wrong
RefuseWith(op, u, id, code, message) ==
    /\ UNCHANGED <<tasks, comments, attachments>>
    /\ last' = [Response(op, u, id, code, "error", {}) EXCEPT !.message = message]

\* a session that is not removed when the request ends: what it holds
\* reaches the database with the next commit on it
SessionRemove_keeps_pending(persisted, pending) == pending

\* the scoped session is removed when the request ends: what was assigned
\* and never committed is gone, the table is what it was
SessionRemove(persisted, pending) == persisted

\* a request that ends without a commit after it changed rows of tasks in
\* its session
Discard(op, u, id, code, message, pending) ==
    /\ tasks' = SessionRemove(tasks, pending)
    /\ UNCHANGED <<comments, attachments>>
    /\ last' = [Response(op, u, id, code, "error", {}) EXCEPT !.message = message]

\* request.form.get(key, '').strip() for the titles of CreateTitleInputs
FormStripped(value) == IF value \in {Absent, " "} THEN "" ELSE value

\* a validate_json that requires no field
MissingField_none_required(value) == FALSE

\* validate_json: the field is not in the body, or its value is falsy
MissingField(value) == value \in {Absent, ""}

\* ------------------------------------------------------- task creation
\* the insert of api_create_task / create_task: add + commit
InsertTask(op, u, row, code) ==
    LET id == NextId IN
    /\ id <= MaxId
    /\ tasks' = (id :> row) @@ tasks
    /\ UNCHANGED <<comments, attachments>>
    /\ last' = Response(op, u, id, code, "success", {id})

\* POST /api/tasks; more carries estimated_hours and tags
api_create_task(u, title, priority, parent, more) ==
    /\ Step
    /\ IF MissingField(title)
       THEN \* validate_json(['title'])
            RefuseWith("api_create_task", u, 0, 400, "Missing required fields: title")
       ELSE IF RaisesValueError(priority, TaskPriority)
       THEN \* ValueError before the task is added: str(e)
            RefuseWith("api_create_task", u, 0, 400, "is not a valid TaskPriority")
       ELSE LET task == NewTask(title, IF priority = Absent THEN "medium" ELSE priority,
                                u, parent)
                \* if data.get('estimated_hours'): 0 is falsy
                t1 == IF more.estimated_hours # None /\ more.estimated_hours[1] # 0
                      THEN [task EXCEPT !.estimated_hours = more.estimated_hours[1]]
                      ELSE task
                \* if data.get('tags'): null and [] are falsy
                t2 == IF more.tags.value # None /\ more.tags.value[1] # << >>
                      THEN set_tags(t1, more.tags.value)
                      ELSE t1
                \* if data.get('project_id'): null and 0 are falsy
                t3 == IF more.project_id # None /\ more.project_id[1] # 0
                      THEN [t2 EXCEPT !.project_id = more.project_id[1]]
                      ELSE t2
            IN InsertTask("api_create_task", u, t3, 201)

\* POST /tasks/create; form carries estimated_hours and the tags string
create_task(u, title, priority, parent, form) ==
    /\ Step
    /\ IF FormStripped(title) = ""
       THEN RefuseWith("create_task", u, 0, 200, "Task title is required")
       ELSE IF RaisesValueError(priority, TaskPriority)
       THEN \* raised inside the try: rollback, flash error, the form again
            RefuseWith("create_task", u, 0, 200, "An error occurred while creating the task")
       ELSE LET task == NewTask(FormStripped(title),
                                IF priority = Absent THEN "medium" ELSE priority,
                                u, parent)
                t1 == [task EXCEPT !.estimated_hours =
                          IF form.estimated_hours = None THEN 0 ELSE form.estimated_hours[1]]
                tags == Strip(form.tags)
                t2 == IF tags # << >>
                      THEN set_tags(t1, Some(StripNonEmpty(Split(tags))))
                      ELSE t1
                \* project_id if project_id else None
                t3 == [t2 EXCEPT !.project_id =
                          IF form.project_id = None THEN 0 ELSE form.project_id[1]]
            IN InsertTask("create_task", u, t3, 302)

\* ------------------------------------------------ completion bookkeeping
\* a listener that is never registered: the assignment changes the flag only
task_completion_listener_unregistered(t, value, oldvalue) == t

\* @event.listens_for(Task.is_completed, 'set'): runs before the new value
\* is stored, with the value the attribute had
task_completion_listener(t, value, oldvalue) ==
    IF value /\ ~oldvalue
    THEN [t EXCEPT !.completed_at = "utcnow", !.status = "done"]
    ELSE IF ~value /\ oldvalue
    THEN [t EXCEPT !.completed_at = "None", !.status = "todo"]
    ELSE t

\* the assignment task.is_completed = value, listener included
SetIsCompleted(t, value) ==
    [task_completion_listener(t, value, t.is_completed) EXCEPT !.is_completed = value]

\* a mark_completed that writes status and completion time and leaves the
\* completion flag unset
MarkCompletedFields_flag_not_set(t) ==
    [t EXCEPT !.status = "done", !.completed_at = "utcnow"]

\* the four assignments of Task.mark_completed before its loop
MarkCompletedFields(t) ==
    [SetIsCompleted(t, TRUE) EXCEPT !.status = "done", !.completed_at = "utcnow"]

\* a mark_completed that stops at the task and leaves its subtasks alone
MarkSubtasks_not_visited(ts, todo) == ts

RECURSIVE mark_completed(_, _), MarkSubtasks(_, _)
\* the loop of Task.mark_completed over the rows self.subtasks returned:
\* a subtask that is already completed is skipped, with all below it
MarkSubtasks(ts, todo) ==
    IF todo = {} THEN ts
    ELSE LET c == CHOOSE x \in todo : \A y \in todo : x <= y
             ts2 == IF ~ts[c].is_completed THEN mark_completed(ts, c) ELSE ts
         IN MarkSubtasks(ts2, todo \ {c})

\* Task.mark_completed on task id, as a change of the table
mark_completed(ts, id) ==
    LET ts1 == [ts EXCEPT ![id] = MarkCompletedFields(@)]
    IN MarkSubtasks(ts1, Subtasks(ts1, id))

\* Task.mark_incomplete
mark_incomplete(t) ==
    [SetIsCompleted(t, FALSE) EXCEPT !.status = "todo", !.completed_at = "None"]

\* Task.mark_completed called on a task that is already completed, and
\* committed
mark_completed_again(u, id) ==
    /\ Step
    /\ FindTask(tasks, u, id)
    /\ tasks[id].is_completed
    /\ tasks' = mark_completed(tasks, id)
    /\ UNCHANGED <<comments, attachments>>
    /\ last' = Response("mark_completed", u, id, 200, "success", {})

\* a toggle whose mark_incomplete goes down the subtasks as mark_completed
\* does
toggle_complete_unmarks_subtasks(u, id) ==
    /\ Step
    /\ IF ~FindTask(tasks, u, id)
       THEN Refuse("toggle_complete", u, id, 404)
       ELSE /\ tasks' = IF tasks[id].is_completed
                        THEN [i \in DOMAIN tasks |->
                                IF i = id \/ tasks[i].parent_task_id = id
                                THEN mark_incomplete(tasks[i]) ELSE tasks[i]]
                        ELSE mark_completed(tasks, id)
            /\ UNCHANGED <<comments, attachments>>
            /\ last' = Response("toggle_complete", u, id, 302, "success", {})

\* POST /tasks/<id>/toggle-complete
toggle_complete(u, id) ==
    /\ Step
    /\ IF ~FindTask(tasks, u, id)
       THEN Refuse("toggle_complete", u, id, 404)
       ELSE /\ tasks' = IF tasks[id].is_completed
                        THEN [tasks EXCEPT ![id] = mark_incomplete(@)]
                        ELSE mark_completed(tasks, id)
            /\ UNCHANGED <<comments, attachments>>
            /\ last' = Response("toggle_complete", u, id, 302, "success", {})

\* --------------------------------- Task.mark_completed, one step at a time
\* a frame of Task.mark_completed: the task it runs on and the rows of
\* self.subtasks its loop has still to visit
Frame(ts, id) == [id |-> id, todo |-> Subtasks(ts, id)]

\* the frame that is running, and the subtask its loop takes next
Top == call.stack[Len(call.stack)]
NextSubtask == CHOOSE x \in Top.todo : \A y \in Top.todo : x <= y

\* mark_completed is called on a task of the caller (by toggle_complete on
\* one that is not completed): the assignments before the loop, and the
\* query of self.subtasks
mark_completed_enter(u, id) ==
    /\ budget > 0
    /\ budget' = budget - 1
    /\ call.stack = << >>
    /\ FindTask(tasks, u, id)
    /\ LET ts1 == [tasks EXCEPT ![id] = MarkCompletedFields(@)]
       IN /\ tasks' = ts1
          /\ call' = [stack |-> <<Frame(ts1, id)>>, marked |-> <<id>>]
    /\ last' = [NoRequest EXCEPT !.op = "mark_completed", !.user = u, !.id = id]
    /\ UNCHANGED <<comments, attachments, users, projects, inflight>>

\* the loop takes a subtask that is not completed: subtask.mark_completed()
mark_completed_recurse ==
    /\ call.stack # << >>
    /\ Top.todo # {}
    /\ ~tasks[NextSubtask].is_completed
    /\ Len(call.stack) < MaxDepth
    /\ LET c == NextSubtask
           ts1 == [tasks EXCEPT ![c] = MarkCompletedFields(@)]
           rest == [call.stack EXCEPT ![Len(call.stack)].todo = @ \ {c}]
       IN /\ tasks' = ts1
          /\ call' = [stack |-> Append(rest, Frame(ts1, c)),
                      marked |-> Append(call.marked, c)]
    /\ UNCHANGED <<comments, attachments, budget, last, users, projects, inflight>>

\* the loop takes a subtask that is completed: nothing is called on it
mark_completed_skip ==
    /\ call.stack # << >>
    /\ Top.todo # {}
    /\ tasks[NextSubtask].is_completed
    /\ call' = [call EXCEPT !.stack[Len(call.stack)].todo = @ \ {NextSubtask}]
    /\ UNCHANGED <<tasks, comments, attachments, budget, last, users, projects, inflight>>

\* the loop is over and the call returns; the outermost returns to its
\* caller, which commits
mark_completed_return ==
    /\ call.stack # << >>
    /\ Top.todo = {}
    /\ call' = [call EXCEPT !.stack = SubSeq(@, 1, Len(@) - 1)]
    /\ last' = IF Len(call.stack) = 1
               THEN [last EXCEPT !.code = 302, !.outcome = "success"] ELSE last
    /\ UNCHANGED <<tasks, comments, attachments, budget, users, projects, inflight>>

\* ----------------------------------------------------------------- update
\* an update that stores parent_task_id as api_create_task does, from a
\* body that carries none
ApplyUpdate_stores_parent(t, title, priority, status, completed, more) ==
    LET t1 == IF status # Absent THEN [t EXCEPT !.status = status] ELSE t
        t2 == IF completed # Absent THEN SetIsCompleted(t1, PyBool(completed)) ELSE t1
    IN [t2 EXCEPT !.parent_task_id = 0]

\* the assignments of api_update_task, in the handler's order
ApplyUpdate(t, title, priority, status, completed, more) ==
    LET t1 == IF title # Absent THEN [t EXCEPT !.title = title] ELSE t
        t2 == IF priority # Absent THEN [t1 EXCEPT !.priority = priority] ELSE t1
        t3 == IF status # Absent THEN [t2 EXCEPT !.status = status] ELSE t2
        t4 == IF completed # Absent THEN SetIsCompleted(t3, PyBool(completed)) ELSE t3
        t5 == IF more.estimated_hours # None
              THEN [t4 EXCEPT !.estimated_hours = more.estimated_hours[1]] ELSE t4
        t6 == IF more.actual_hours # None
              THEN [t5 EXCEPT !.actual_hours = more.actual_hours[1]] ELSE t5
        \* if 'project_id' in data: the value is stored as it is
        t7 == IF more.project_id # None
              THEN [t6 EXCEPT !.project_id = more.project_id[1]] ELSE t6
    IN IF more.tags.present THEN set_tags(t7, more.tags.value) ELSE t7

\* the assignments of api_update_task that precede the ValueError of an
\* unrecognized priority or status
ApplyUntilError(t, title, priority, status) ==
    LET t1 == IF title # Absent THEN [t EXCEPT !.title = title] ELSE t
    IN IF RaisesValueError(priority, TaskPriority) THEN t1
       ELSE IF priority # Absent THEN [t1 EXCEPT !.priority = priority] ELSE t1

\* an update that completes the task as toggle-complete does, through
\* Task.mark_completed and its cascade
api_update_task_calls_mark_completed(u, id, title, priority, status, completed, more) ==
    /\ Step
    /\ IF ~FindTask(tasks, u, id)
       THEN Refuse("api_update_task", u, id, 404)
       ELSE /\ tasks' = IF completed # Absent /\ PyBool(completed)
                        THEN mark_completed(tasks, id)
                        ELSE [tasks EXCEPT ![id] =
                                ApplyUpdate(@, title, priority, status, completed, more)]
            /\ UNCHANGED <<comments, attachments>>
            /\ last' = Response("api_update_task", u, id, 200, "success", {id})

\* PUT /api/tasks/<id>; the body carries any of title, priority, status,
\* is_completed and, in more, estimated_hours, actual_hours, tags
api_update_task(u, id, title, priority, status, completed, more) ==
    /\ Step
    /\ IF ~FindTask(tasks, u, id)
       THEN Refuse("api_update_task", u, id, 404)
       ELSE IF title = Absent /\ priority = Absent /\ status = Absent /\ completed = Absent
               /\ more = NoMore
       THEN \* 'No data provided'
            Refuse("api_update_task", u, id, 400)
       ELSE IF RaisesValueError(priority, TaskPriority) \/ RaisesValueError(status, TaskStatus)
       THEN \* ValueError: 400, no commit and no rollback
            Discard("api_update_task", u, id, 400,
                    IF RaisesValueError(priority, TaskPriority)
                    THEN "is not a valid TaskPriority" ELSE "is not a valid TaskStatus",
                    [tasks EXCEPT ![id] = ApplyUntilError(@, title, priority, status)])
       ELSE /\ tasks' = [tasks EXCEPT ![id] =
                            ApplyUpdate(@, title, priority, status, completed, more)]
            /\ UNCHANGED <<comments, attachments>>
            /\ last' = Response("api_update_task", u, id, 200, "success", {id})

\* the assignments of edit_task, in the handler's order; a form without
\* priority, status or hours gets the defaults 'medium', 'todo' and 0
ApplyForm(t, title, priority, status, form) ==
    LET tags == Strip(form.tags)
        t1 == [t EXCEPT !.title = FormStripped(title),
                        !.priority = IF priority = Absent THEN "medium" ELSE priority,
                        !.status = IF status = Absent THEN "todo" ELSE status,
                        !.estimated_hours =
                            IF form.estimated_hours = None THEN 0 ELSE form.estimated_hours[1],
                        !.actual_hours =
                            IF form.actual_hours = None THEN 0 ELSE form.actual_hours[1],
                        !.project_id =
                            IF form.project_id = None THEN 0 ELSE form.project_id[1]]
    IN IF tags # << >>
       THEN set_tags(t1, Some(StripNonEmpty(Split(tags))))
       ELSE [t1 EXCEPT !.tags = Some(<< >>)]

\* POST /tasks/<id>/edit
edit_task(u, id, title, priority, status, form) ==
    /\ Step
    /\ IF ~FindTask(tasks, u, id)
       THEN Refuse("edit_task", u, id, 404)
       ELSE IF RaisesValueError(priority, TaskPriority) \/ RaisesValueError(status, TaskStatus)
       THEN \* raised outside any try: the request fails, nothing committed
            Discard("edit_task", u, id, 500, "",
                    [tasks EXCEPT ![id] = [@ EXCEPT !.title = FormStripped(title)]])
       ELSE IF FormStripped(title) = ""
       THEN \* 'Task title is required': returns before the commit
            Discard("edit_task", u, id, 200, "Task title is required",
                    [tasks EXCEPT ![id] = ApplyForm(@, title, priority, status, form)])
       ELSE /\ tasks' = [tasks EXCEPT ![id] = ApplyForm(@, title, priority, status, form)]
            /\ UNCHANGED <<comments, attachments>>
            /\ last' = Response("edit_task", u, id, 302, "success", {})

\* --------------------------------------------------------------- deletion
\* the other policy delete_task names: the subtasks are deleted with the
\* task
Reparent_deletes_subtasks(ts, id) ==
    [c \in {d \in DOMAIN ts : d = id \/ ts[d].parent_task_id # id} |-> ts[c]]

\* lines 208-210 of delete_task: every row whose parent is the task,
\* whoever owns it, becomes independent
Reparent(ts, id) ==
    [c \in DOMAIN ts |-> IF ts[c].parent_task_id = id
                         THEN [ts[c] EXCEPT !.parent_task_id = 0] ELSE ts[c]]

\* a relationship that leaves the children to the database
\* (passive_deletes): the row goes, its children keep their parent_task_id
SessionDeleteTask_passive(ts, id) == [c \in DOMAIN ts \ {id} |-> ts[c]]

\* db.session.delete(task) on the tasks table: Task.subtasks has no delete
\* cascade, so the unit of work sets the children's parent_task_id to NULL
\* and then deletes the row
SessionDeleteTask(ts, id) ==
    LET nullified == [c \in DOMAIN ts |-> IF ts[c].parent_task_id = id
                                          THEN [ts[c] EXCEPT !.parent_task_id = 0] ELSE ts[c]]
    IN [c \in DOMAIN ts \ {id} |-> nullified[c]]

\* a relationship without the delete cascade: the rows stay when the task
\* goes
CascadeDelete_keeps_rows(rows, id) == rows

\* db.session.delete(task) on the rows of an 'all, delete-orphan'
\* relationship (Task.comments, Task.attachments): they go with the task
CascadeDelete(rows, id) == {r \in rows : r.task_id # id}

\* the loops of delete_task over task.comments and task.attachments
DeleteEach(rows, id) == rows \ {r \in rows : r.task_id = id}

\* the delete the application's notice describes: the task row alone is
\* removed, its comments, attachments and subtasks stay as they are
delete_task_row_only(u, id) ==
    /\ Step
    /\ IF ~FindTask(tasks, u, id)
       THEN Refuse("delete_task", u, id, 404)
       ELSE /\ tasks' = [c \in DOMAIN tasks \ {id} |-> tasks[c]]
            /\ UNCHANGED <<comments, attachments>>
            /\ last' = Response("delete_task", u, id, 302, "success", {})

\* the tables delete_task commits for task id: <<tasks, comments,
\* attachments>>
WebDeleteResult(id) ==
    <<SessionDeleteTask(Reparent(tasks, id), id),
      CascadeDelete(DeleteEach(comments, id), id),
      CascadeDelete(DeleteEach(attachments, id), id)>>

\* the tables api_delete_task commits for task id
ApiDeleteResult(id) ==
    <<SessionDeleteTask(tasks, id), CascadeDelete(comments, id), CascadeDelete(attachments, id)>>

\* POST /tasks/<id>/delete
delete_task(u, id) ==
    /\ Step
    /\ IF ~FindTask(tasks, u, id)
       THEN Refuse("delete_task", u, id, 404)
       ELSE /\ tasks' = WebDeleteResult(id)[1]
            /\ comments' = WebDeleteResult(id)[2]
            /\ attachments' = WebDeleteResult(id)[3]
            /\ last' = Response("delete_task", u, id, 302, "success", {})

\* the steps of delete_task that can raise: the subtask loop, the comment
\* loop, the attachment loop, the delete of the task, the commit
DeleteSteps == 1..5

\* what the session of delete_task holds when step raises: the work of
\* the steps before it (all of it, flushed, when the commit raises)
PendingDelete(id, step) ==
    LET t1 == IF step > 1 THEN Reparent(tasks, id) ELSE tasks
        c1 == IF step > 2 THEN DeleteEach(comments, id) ELSE comments
        a1 == IF step > 3 THEN DeleteEach(attachments, id) ELSE attachments
    IN IF step > 4
       THEN <<SessionDeleteTask(t1, id), CascadeDelete(c1, id), CascadeDelete(a1, id)>>
       ELSE <<t1, c1, a1>>

\* an except branch without the rollback, on a session that commits what
\* it holds
SessionRollback_keeps_pending(persisted, pending) == pending

\* db.session.rollback(): the transaction is undone, the tables are what
\* they were when it began
SessionRollback(persisted, pending) == persisted

\* POST /tasks/<id>/delete when a step of the cascade raises: the except
\* branch rolls back, flashes the error and redirects to the task
delete_task_failed(u, id, step) ==
    /\ Step
    /\ FindTask(tasks, u, id)
    /\ LET after == SessionRollback(<<tasks, comments, attachments>>, PendingDelete(id, step))
       IN /\ tasks' = after[1]
          /\ comments' = after[2]
          /\ attachments' = after[3]
    /\ last' = Response("delete_task", u, id, 302, "error", {})

\* DELETE /api/tasks/<id>
api_delete_task(u, id) ==
    /\ Step
    /\ IF ~FindTask(tasks, u, id)
       THEN Refuse("api_delete_task", u, id, 404)
       ELSE /\ tasks' = ApiDeleteResult(id)[1]
            /\ comments' = ApiDeleteResult(id)[2]
            /\ attachments' = ApiDeleteResult(id)[3]
            /\ last' = Response("api_delete_task", u, id, 200, "success", {})

\* ------------------------------------------------- comments, attachments
\* POST /tasks/<id>/comment
add_comment(u, id, content) ==
    /\ Step
    /\ IF ~FindTask(tasks, u, id)
       THEN Refuse("add_comment", u, id, 404)
       ELSE IF content = ""
       THEN \* 'Comment cannot be empty'
            Refuse("add_comment", u, id, 302)
       ELSE /\ Cardinality(comments) < MaxComments
            /\ comments' = comments \cup
                   {[id |-> SetMax({c.id : c \in comments}) + 1, task_id |-> id, user_id |-> u]}
            /\ UNCHANGED <<tasks, attachments>>
            /\ last' = Response("add_comment", u, id, 302, "success", {})

\* an attachment row is stored for a task of the uploading user
add_attachment(u, id) ==
    /\ Step
    /\ FindTask(tasks, u, id)
    /\ Cardinality(attachments) < MaxAttachments
    /\ attachments' = attachments \cup
           {[id |-> SetMax({a.id : a \in attachments}) + 1, task_id |-> id, uploaded_by |-> u]}
    /\ UNCHANGED <<tasks, comments>>
    /\ last' = Response("add_attachment", u, id, 302, "success", {})

\* ----------------------------------------------------------- registration
\* the username and email fields of the registration form
UsernameInputs == {"ab", "abc", " abc", "abd"}
EmailInputs == {"a@x.io", "A@x.io", "b@x.io"}

\* request.form.get('username', '').strip()
UsernameStripped(value) == IF value = " abc" THEN "abc" ELSE value

\* request.form.get('email', '').strip().lower()
EmailLowered(value) == IF value = "A@x.io" THEN "a@x.io" ELSE value

\* len(username) < 3 for the usernames of UsernameInputs
TooShort(username) == username = "ab"

\* the slot a request that arrives is handled in
FreeSlot == CHOOSE k \in 1..MaxInFlight : k \notin DOMAIN inflight

\* the request of a slot has been answered
Answered(slot) == [k \in DOMAIN inflight \ {slot} |-> inflight[k]]

\* a users table without the unique indexes: every row is accepted
UniqueViolation_not_enforced(rows, row) == FALSE

\* unique=True on users.username and users.email: the INSERT of a row with
\* a username or an email that a stored row has raises IntegrityError
UniqueViolation(rows, row) ==
    \E r \in rows : r.username = row.username \/ r.email = row.email

\* POST /auth/register up to the existence checks: the form is read and
\* validated, and the username and the email are looked up; with an error
\* the form is rendered again, without one the handler goes on to create
\* the user
register(username, email) ==
    /\ budget > 0
    /\ budget' = budget - 1
    /\ Cardinality(DOMAIN inflight) < MaxInFlight
    /\ UNCHANGED <<tasks, comments, attachments, users, projects, call>>
    /\ LET name == UsernameStripped(username)
           mail == EmailLowered(email)
       IN IF TooShort(name)
             \/ (\E r \in users : r.username = name)
             \/ (\E r \in users : r.email = mail)
          THEN /\ inflight' = inflight
               /\ last' = [NoRequest EXCEPT !.op = "register", !.code = 200,
                              !.outcome = "error",
                              !.message = IF TooShort(name)
                                          THEN "Username must be at least 3 characters long"
                                          ELSE IF \E r \in users : r.username = name
                                          THEN "Username already exists"
                                          ELSE "Email address already registered"]
          ELSE /\ inflight' = (FreeSlot :> [op |-> "register", username |-> name,
                                            email |-> mail]) @@ inflight
               /\ last' = last

\* the rest of it: db.session.add(user) and the commit; when the INSERT
\* raises, the except branch rolls back and flashes the error
register_commit(slot) ==
    /\ slot \in DOMAIN inflight
    /\ inflight[slot].op = "register"
    /\ UNCHANGED <<tasks, comments, attachments, budget, projects, call>>
    /\ inflight' = Answered(slot)
    /\ LET id == IF "A" \notin {r.id : r \in users} THEN "A" ELSE "B"
           row == [id |-> id, username |-> inflight[slot].username,
                   email |-> inflight[slot].email]
       IN IF UniqueViolation(users, row)
          THEN /\ users' = SessionRollback(users, users \cup {row})
               /\ last' = [NoRequest EXCEPT !.op = "register", !.code = 200,
                              !.outcome = "error",
                              !.message = "An error occurred during registration. Please try again."]
          ELSE /\ Cardinality(users) < Cardinality(Users)
               /\ users' = users \cup {row}
               /\ last' = [NoRequest EXCEPT !.op = "register", !.code = 302,
                              !.outcome = "success"]

\* ------------------------------------- requests handled side by side
\* a request is taken up in a free slot, with what its session holds
TakeUp(request) == (FreeSlot :> request) @@ inflight

\* POST /tasks/<id>/comment up to the commit: the task is looked up and the
\* comment is built with task_id = task.id
add_comment_lookup(u, id) ==
    /\ budget > 0
    /\ budget' = budget - 1
    /\ Cardinality(DOMAIN inflight) < MaxInFlight
    /\ UNCHANGED <<users, projects, call>>
    /\ IF ~FindTask(tasks, u, id)
       THEN /\ Refuse("add_comment", u, id, 404)
            /\ inflight' = inflight
       ELSE /\ UNCHANGED <<tasks, comments, attachments, last>>
            /\ inflight' = TakeUp([op |-> "add_comment", user |-> u, id |-> id])

\* the commit of add_comment: the row is inserted; nothing looks the task
\* up again
add_comment_commit(slot) ==
    /\ slot \in DOMAIN inflight
    /\ inflight[slot].op = "add_comment"
    /\ Cardinality(comments) < MaxComments
    /\ comments' = comments \cup
           {[id |-> SetMax({c.id : c \in comments}) + 1, task_id |-> inflight[slot].id,
             user_id |-> inflight[slot].user]}
    /\ inflight' = Answered(slot)
    /\ UNCHANGED <<tasks, attachments, budget, users, projects, call>>
    /\ last' = Response("add_comment", inflight[slot].user, inflight[slot].id,
                        302, "success", {})

\* POST /api/tasks with the parent_task_id of a task the caller has, up to
\* the commit: the body is validated and the task built
api_create_subtask(u, parent) ==
    /\ budget > 0
    /\ budget' = budget - 1
    /\ Cardinality(DOMAIN inflight) < MaxInFlight
    /\ FindTask(tasks, u, parent)
    /\ inflight' = TakeUp([op |-> "api_create_task", user |-> u, id |-> parent])
    /\ UNCHANGED <<tasks, comments, attachments, last, users, projects, call>>

\* the commit of api_create_task: the row is inserted with the
\* parent_task_id of the body
api_create_subtask_commit(slot) ==
    /\ slot \in DOMAIN inflight
    /\ inflight[slot].op = "api_create_task"
    /\ InsertTask("api_create_task", inflight[slot].user,
                  NewTask("a", "medium", inflight[slot].user, inflight[slot].id), 201)
    /\ inflight' = Answered(slot)
    /\ UNCHANGED <<budget, users, projects, call>>

\* the flush of one row at the commit: the UPDATE sets the columns whose
\* value in the session is not the value that was loaded, and leaves the
\* others as the table has them
Flush(stored, loaded, row) ==
    [f \in DOMAIN stored |-> IF row[f] # loaded[f] THEN row[f] ELSE stored[f]]

\* PUT /api/tasks/<id> up to the assignments: the task is looked up and
\* the body read; the session holds the row as it was loaded
api_update_task_lookup(u, id, title, status) ==
    /\ budget > 0
    /\ budget' = budget - 1
    /\ Cardinality(DOMAIN inflight) < MaxInFlight
    /\ UNCHANGED <<users, projects, call>>
    /\ IF ~FindTask(tasks, u, id)
       THEN /\ Refuse("api_update_task", u, id, 404)
            /\ inflight' = inflight
       ELSE IF title = Absent /\ status = Absent
       THEN /\ Refuse("api_update_task", u, id, 400)
            /\ inflight' = inflight
       ELSE /\ UNCHANGED <<tasks, comments, attachments, last>>
            /\ inflight' = TakeUp([op |-> "api_update_task", user |-> u, id |-> id,
                                   loaded |-> tasks[id], title |-> title,
                                   status |-> status])

\* POST /tasks/<id>/toggle-complete up to the try block: the task is
\* looked up
toggle_complete_lookup(u, id) ==
    /\ budget > 0
    /\ budget' = budget - 1
    /\ Cardinality(DOMAIN inflight) < MaxInFlight
    /\ UNCHANGED <<users, projects, call>>
    /\ IF ~FindTask(tasks, u, id)
       THEN /\ Refuse("toggle_complete", u, id, 404)
            /\ inflight' = inflight
       ELSE /\ UNCHANGED <<tasks, comments, attachments, last>>
            /\ inflight' = TakeUp([op |-> "toggle_complete", user |-> u, id |-> id,
                                   loaded |-> tasks[id], title |-> Absent,
                                   status |-> Absent])

\* the row of the addressed task as the session of a request holds it
\* after the handler's assignments
SessionRow(request) ==
    IF request.op = "api_update_task"
    THEN ApplyUpdate(request.loaded, request.title, Absent, request.status, Absent, NoMore)
    ELSE IF request.loaded.is_completed
    THEN mark_incomplete(request.loaded)
    ELSE MarkCompletedFields(request.loaded)

\* the assignments and the commit of a request that was taken up: the
\* row is flushed; mark_completed goes on to the subtasks the table has;
\* when the row is gone the UPDATE matches nothing, the commit raises and
\* is rolled back
CommitRow(slot) ==
    LET request == inflight[slot]
        id == request.id
    IN /\ inflight' = Answered(slot)
       /\ UNCHANGED <<comments, attachments, budget, users, projects, call>>
       /\ IF id \notin DOMAIN tasks
          THEN /\ tasks' = SessionRollback(tasks, tasks)
               /\ last' = Response(request.op, request.user, id, 500, "error", {})
          ELSE LET flushed == [tasks EXCEPT ![id] =
                                  Flush(@, request.loaded, SessionRow(request))]
               IN /\ tasks' = IF request.op = "toggle_complete"
                                  /\ ~request.loaded.is_completed
                               THEN MarkSubtasks(flushed, Subtasks(flushed, id) \ {id})
                               ELSE flushed
                  /\ last' = Response(request.op, request.user, id,
                                      IF request.op = "api_update_task" THEN 200 ELSE 302,
                                      "success", {})

api_update_task_commit(slot) ==
    /\ slot \in DOMAIN inflight
    /\ inflight[slot].op = "api_update_task"
    /\ CommitRow(slot)

toggle_complete_commit(slot) ==
    /\ slot \in DOMAIN inflight
    /\ inflight[slot].op = "toggle_complete"
    /\ CommitRow(slot)

\* ------------------------------------------------------- deleting a user
\* the ids of the registered users
UserIds == {r.id : r \in users}

RECURSIVE SessionDeleteTasks(_, _), CascadeDeleteAll(_, _)
\* the cascade of User.tasks ('all, delete-orphan'): db.session.delete on
\* every task of the user
SessionDeleteTasks(ts, ids) ==
    IF ids = {} THEN ts
    ELSE LET i == CHOOSE x \in ids : \A y \in ids : x <= y
         IN SessionDeleteTasks(SessionDeleteTask(ts, i), ids \ {i})

\* and, for each of them, the cascade of Task.comments / Task.attachments
CascadeDeleteAll(rows, ids) ==
    IF ids = {} THEN rows
    ELSE LET i == CHOOSE x \in ids : \A y \in ids : x <= y
         IN CascadeDeleteAll(CascadeDelete(rows, i), ids \ {i})

\* a user is deleted: db.session.delete(user) and the commit. User.tasks
\* cascades; User.projects does not, so the unit of work sets user_id of
\* the user's projects to NULL, which the NOT NULL column refuses: the
\* commit raises and is rolled back
delete_user(u) ==
    /\ budget > 0
    /\ budget' = budget - 1
    /\ u \in UserIds
    /\ UNCHANGED <<projects, call, inflight>>
    /\ IF \E q \in projects : q.user_id = u
       THEN /\ UNCHANGED <<tasks, comments, attachments, users>>
            /\ last' = Response("delete_user", u, 0, 500, "error", {})
       ELSE LET gone == {i \in DOMAIN tasks : tasks[i].user_id = u} IN
            /\ tasks' = SessionDeleteTasks(tasks, gone)
            /\ comments' = CascadeDeleteAll(comments, gone)
            /\ attachments' = CascadeDeleteAll(attachments, gone)
            /\ users' = {r \in users : r.id # u}
            /\ last' = Response("delete_user", u, 0, 200, "success", {})

\* --------------------------------------------------------------- projects
\* POST /api/projects
api_create_project(u, name) ==
    /\ budget > 0
    /\ budget' = budget - 1
    /\ UNCHANGED <<tasks, comments, attachments, users, call, inflight>>
    /\ IF MissingField(name)
       THEN \* validate_json(['name'])
            /\ UNCHANGED projects
            /\ last' = [Response("api_create_project", u, 0, 400, "error", {})
                           EXCEPT !.message = "Missing required fields: name"]
       ELSE LET id == SetMax({q.id : q \in projects}) + 1 IN
            /\ id <= MaxProjects
            /\ projects' = projects \cup {[id |-> id, user_id |-> u]}
            /\ last' = Response("api_create_project", u, id, 201, "success", {})

\* Project.tasks: the rows whose project_id is the project's id
ProjectTasks(ts, pid) == {i \in DOMAIN ts : ts[i].project_id = pid}

\* Project.get_task_stats: the counts the completion rate is made of
get_task_stats(ts, pid) ==
    LET total_tasks == Cardinality(ProjectTasks(ts, pid))
        completed_tasks == Cardinality({i \in ProjectTasks(ts, pid) : ts[i].is_completed})
    IN [total_tasks |-> total_tasks, completed_tasks |-> completed_tasks,
        pending_tasks |-> total_tasks - completed_tasks]

\* Project.is_completed
is_completed(ts, pid) ==
    LET total_tasks == Cardinality(ProjectTasks(ts, pid))
    IN IF total_tasks = 0 THEN FALSE
       ELSE total_tasks = Cardinality({i \in ProjectTasks(ts, pid) : ts[i].is_completed})

\* ------------------------------------------------------------------ reads
\* GET /api/tasks/<id>
api_get_task(u, id, include_subtasks) ==
    /\ Step
    /\ IF ~FindTask(tasks, u, id)
       THEN Refuse("api_get_task", u, id, 404)
       ELSE /\ UNCHANGED <<tasks, comments, attachments>>
            /\ last' = Response("api_get_task", u, id, 200, "success",
                                ToDict(tasks, id, include_subtasks))

\* GET /api/tasks (the filters and the paging only narrow the result)
api_get_tasks(u, include_subtasks) ==
    /\ Step
    /\ UNCHANGED <<tasks, comments, attachments>>
    /\ last' = Response("api_get_tasks", u, 0, 200, "success",
                        UNION {ToDict(tasks, id, include_subtasks) :
                               id \in {i \in DOMAIN tasks : tasks[i].user_id = u}})

\* GET /tasks/<id>: the task, its comments and its subtasks are rendered
view_task(u, id) ==
    /\ Step
    /\ IF ~FindTask(tasks, u, id)
       THEN Refuse("view_task", u, id, 404)
       ELSE /\ UNCHANGED <<tasks, comments, attachments>>
            /\ last' = Response("view_task", u, id, 200, "success", ToDict(tasks, id, TRUE))

\* ------------------------------------------------------------------- Next
Next ==
    \/ \E u \in Users, title \in TitleInputs, priority \in PriorityInputs,
          parent \in ParentInputs : api_create_task(u, title, priority, parent, NoMore)
    \/ \E u \in Users, title \in TitleInputs, priority \in PriorityInputs,
          parent \in ParentInputs : create_task(u, title, priority, parent, NoForm)
    \/ \E u \in Users, id \in Ids : toggle_complete(u, id)
    \/ \E u \in Users, id \in Ids, priority \in PriorityInputs,
          status \in StatusInputs, completed \in CompletedInputs :
            api_update_task(u, id, Absent, priority, status, completed, NoMore)
    \/ \E u \in Users, id \in Ids, title \in TitleInputs,
          priority \in PriorityInputs, status \in StatusInputs :
            edit_task(u, id, title, priority, status, NoForm)
    \/ \E u \in Users, id \in Ids : delete_task(u, id)
    \/ \E u \in Users, id \in Ids : api_delete_task(u, id)
    \/ \E u \in Users, id \in Ids, content \in ContentInputs : add_comment(u, id, content)
    \/ \E u \in Users, id \in Ids : add_attachment(u, id)
    \/ \E u \in Users, id \in Ids, inc \in BOOLEAN : api_get_task(u, id, inc)
    \/ \E u \in Users, inc \in BOOLEAN : api_get_tasks(u, inc)
    \/ \E u \in Users, id \in Ids : view_task(u, id)

Spec == Init /\ [][Next]_vars

\* the deletion cascade on its own: tasks, comments and attachments are
\* created and tasks deleted
InitDelete ==
    /\ tasks = << >>
    /\ comments = {}
    /\ attachments = {}
    /\ budget = MaxOpsDelete
    /\ last = NoRequest
    /\ AtRest

NextDelete ==
    \/ \E u \in Users, parent \in ParentInputs : api_create_task(u, "a", Absent, parent, NoMore)
    \/ \E u \in Users, id \in Ids : delete_task(u, id)
    \/ \E u \in Users, id \in Ids : api_delete_task(u, id)
    \/ \E u \in Users, id \in Ids : add_comment(u, id, "c")
    \/ \E u \in Users, id \in Ids : add_attachment(u, id)

SpecDelete == InitDelete /\ [][NextDelete]_vars

\* every write path of the tasks table: create, API update of status and
\* is_completed, web edit, toggle-complete and delete
InitComplete ==
    /\ tasks = << >>
    /\ comments = {}
    /\ attachments = {}
    /\ budget = MaxOpsComplete
    /\ last = NoRequest
    /\ AtRest

NextComplete ==
    \/ \E u \in Users, title \in TitleInputs, priority \in PriorityInputs,
          parent \in ParentInputs : api_create_task(u, title, priority, parent, NoMore)
    \/ \E u \in Users, title \in TitleInputs, priority \in PriorityInputs,
          parent \in ParentInputs : create_task(u, title, priority, parent, NoForm)
    \/ \E u \in Users, id \in Ids : toggle_complete(u, id)
    \/ \E u \in Users, id \in Ids, status \in StatusInputs, completed \in CompletedInputs :
            api_update_task(u, id, Absent, Absent, status, completed, NoMore)
    \/ \E u \in Users, id \in Ids, status \in StatusInputs :
            edit_task(u, id, "a", Absent, status, NoForm)
    \/ \E u \in Users, id \in Ids : delete_task(u, id)
    \/ \E u \in Users, id \in Ids : api_delete_task(u, id)

SpecComplete == InitComplete /\ [][NextComplete]_vars

\* the completion cascade on its own: tasks are created through the API,
\* completed by an update and toggled
InitCascade ==
    /\ tasks = << >>
    /\ comments = {}
    /\ attachments = {}
    /\ budget = MaxOpsCascade
    /\ last = NoRequest
    /\ AtRest

NextCascade ==
    \/ \E u \in Users, title \in TitleInputs, priority \in PriorityInputs,
          parent \in ParentInputs : api_create_task(u, title, priority, parent, NoMore)
    \/ \E u \in Users, id \in Ids : toggle_complete(u, id)
    \/ \E u \in Users, id \in Ids, completed \in CompletedInputs :
            api_update_task(u, id, Absent, Absent, Absent, completed, NoMore)

SpecCascade == InitCascade /\ [][NextCascade]_vars

\* the web delete and its failures: tasks, comments and attachments are
\* created, and a delete succeeds or raises at one of its steps
InitRollback ==
    /\ tasks = << >>
    /\ comments = {}
    /\ attachments = {}
    /\ budget = MaxOpsRollback
    /\ last = NoRequest
    /\ AtRest

NextRollback ==
    \/ \E u \in Users, parent \in ParentInputs : api_create_task(u, "a", Absent, parent, NoMore)
    \/ \E u \in Users, id \in Ids : add_comment(u, id, "c")
    \/ \E u \in Users, id \in Ids : add_attachment(u, id)
    \/ \E u \in Users, id \in Ids : delete_task(u, id)
    \/ \E u \in Users, id \in Ids, step \in DeleteSteps : delete_task_failed(u, id, step)

SpecRollback == InitRollback /\ [][NextRollback]_vars

\* toggling on its own: tasks are created through the API, completed by
\* an update and toggled both ways
InitToggle ==
    /\ tasks = << >>
    /\ comments = {}
    /\ attachments = {}
    /\ budget = MaxOpsToggle
    /\ last = NoRequest
    /\ AtRest

NextToggle ==
    \/ \E u \in Users, parent \in ParentInputs : api_create_task(u, "a", Absent, parent, NoMore)
    \/ \E u \in Users, id \in Ids : toggle_complete(u, id)
    \/ \E u \in Users, id \in Ids, completed \in {"true", "false"} :
            api_update_task(u, id, Absent, Absent, Absent, completed, NoMore)

SpecToggle == InitToggle /\ [][NextToggle]_vars

\* the same, with Task.mark_completed also called on completed tasks
NextMarkCompleted ==
    \/ NextToggle
    \/ \E u \in Users, id \in Ids : mark_completed_again(u, id)

SpecMarkCompleted == InitToggle /\ [][NextMarkCompleted]_vars

\* the progress of a task: user A has task 1 and, under it, tasks 2..n+1,
\* of which the first c are completed; tasks are read
InitProgress ==
    /\ \E n \in 0..MaxSubtasks, c \in 0..MaxSubtasks, done \in BOOLEAN :
          /\ c <= n
          /\ tasks = [i \in 1..(n + 1) |->
                        LET row == NewTask("a", "medium", "A", IF i = 1 THEN 0 ELSE 1)
                        IN IF (i = 1 /\ done) \/ (i > 1 /\ i <= c + 1)
                           THEN SetIsCompleted(row, TRUE) ELSE row]
    /\ comments = {}
    /\ attachments = {}
    /\ budget = MaxOpsProgress
    /\ last = NoRequest
    /\ AtRest

NextProgress ==
    \/ \E u \in Users, id \in Ids, inc \in BOOLEAN : api_get_task(u, id, inc)
    \/ \E u \in Users, id \in Ids : view_task(u, id)

SpecProgress == InitProgress /\ [][NextProgress]_vars

\* tags on their own: tasks are created and updated with tags, through
\* the API (a list) and the forms (one string), and read
InitTags ==
    /\ tasks = << >>
    /\ comments = {}
    /\ attachments = {}
    /\ budget = MaxOpsTags
    /\ last = NoRequest
    /\ AtRest

NextTags ==
    \/ \E u \in Users, tg \in ApiTagsInputs :
            api_create_task(u, "a", Absent, 0, [NoMore EXCEPT !.tags = tg])
    \/ \E u \in Users, str \in FormTagsInputs :
            create_task(u, "a", Absent, 0, [NoForm EXCEPT !.tags = str])
    \/ \E u \in Users, id \in Ids, tg \in ApiTagsInputs :
            api_update_task(u, id, Absent, Absent, Absent, Absent, [NoMore EXCEPT !.tags = tg])
    \/ \E u \in Users, id \in Ids, str \in FormTagsInputs :
            edit_task(u, id, "a", Absent, Absent, [NoForm EXCEPT !.tags = str])
    \/ \E u \in Users, id \in Ids : api_get_task(u, id, FALSE)

SpecTags == InitTags /\ [][NextTags]_vars

\* validation on its own: tasks are created and updated, through the API
\* and the forms, with and without a title, with recognized and
\* unrecognized priority and status, with and without hours
ValidateMore == {[NoMore EXCEPT !.estimated_hours = h] : h \in HoursInputs}
ValidateForm == {[NoForm EXCEPT !.estimated_hours = h] : h \in HoursInputs}
ValidateTitles == {Absent, "b"}
ValidateStatuses == {Absent, "bogus"}

InitValidate ==
    /\ tasks = << >>
    /\ comments = {}
    /\ attachments = {}
    /\ budget = MaxOpsValidate
    /\ last = NoRequest
    /\ AtRest

NextValidate ==
    \/ \E u \in Users, title \in CreateTitleInputs, priority \in PriorityInputs,
          more \in ValidateMore : api_create_task(u, title, priority, 0, more)
    \/ \E u \in Users, title \in CreateTitleInputs, priority \in PriorityInputs,
          form \in ValidateForm : create_task(u, title, priority, 0, form)
    \/ \E u \in Users, id \in Ids, title \in ValidateTitles,
          priority \in PriorityInputs, status \in ValidateStatuses, more \in ValidateMore :
            api_update_task(u, id, title, priority, status, Absent, more)
    \/ \E u \in Users, id \in Ids, title \in TitleInputs, form \in ValidateForm :
            edit_task(u, id, title, Absent, Absent, form)

SpecValidate == InitValidate /\ [][NextValidate]_vars

\* Task.mark_completed on every parent/child graph: user A has tasks
\* 1..MaxId, each with any parent_task_id, its own id and the ids of its
\* subtasks included, and any of them completed by an API update; a task
\* is toggled, or mark_completed is called on a completed one
InitGraph ==
    /\ \E parent \in [Ids -> ParentInputs], done \in [Ids -> BOOLEAN] :
          tasks = [i \in Ids |->
                     LET row == NewTask("a", "medium", "A", parent[i])
                     IN IF done[i] THEN SetIsCompleted(row, TRUE) ELSE row]
    /\ comments = {}
    /\ attachments = {}
    /\ budget = MaxOpsGraph
    /\ last = NoRequest
    /\ AtRest

NextGraph ==
    \/ \E u \in Users, id \in Ids : toggle_complete(u, id)
    \/ \E u \in Users, id \in Ids : mark_completed_again(u, id)

SpecGraph == InitGraph /\ [][NextGraph]_vars

\* Task.mark_completed one step at a time, on the graphs of InitGraph; the
\* interpreter goes on with a call that is running
CallSteps ==
    \/ mark_completed_recurse
    \/ mark_completed_skip
    \/ mark_completed_return

NextCall ==
    \/ \E u \in Users, id \in Ids : mark_completed_enter(u, id)
    \/ CallSteps

SpecCall == InitGraph /\ [][NextCall]_vars /\ WF_vars(CallSteps)

\* titles on their own: tasks are created and updated, through the API
\* and the forms, with a title, with an empty or blank one and without one
UpdateTitleInputs == {Absent, "", "a"}

InitTitle ==
    /\ tasks = << >>
    /\ comments = {}
    /\ attachments = {}
    /\ budget = MaxOpsTitle
    /\ last = NoRequest
    /\ AtRest

NextTitle ==
    \/ \E u \in Users, title \in CreateTitleInputs :
            api_create_task(u, title, Absent, 0, NoMore)
    \/ \E u \in Users, title \in CreateTitleInputs :
            create_task(u, title, Absent, 0, NoForm)
    \/ \E u \in Users, id \in Ids, title \in UpdateTitleInputs, status \in {Absent, "done"} :
            api_update_task(u, id, title, Absent, status, Absent, NoMore)
    \/ \E u \in Users, id \in Ids, title \in CreateTitleInputs :
            edit_task(u, id, title, Absent, Absent, NoForm)

SpecTitle == InitTitle /\ [][NextTitle]_vars

\* projects: they are created through the API, and tasks are created and
\* updated with and without a project_id, through the API and the forms
InitProject ==
    /\ tasks = << >>
    /\ comments = {}
    /\ attachments = {}
    /\ budget = MaxOpsProject
    /\ last = NoRequest
    /\ AtRest

NextProject ==
    \/ \E u \in Users, name \in {Absent, "p"} : api_create_project(u, name)
    \/ \E u \in Users, pid \in ProjectInputs :
            api_create_task(u, "a", Absent, 0, [NoMore EXCEPT !.project_id = pid])
    \/ \E u \in Users, pid \in ProjectInputs :
            create_task(u, "a", Absent, 0, [NoForm EXCEPT !.project_id = pid])
    \/ \E u \in Users, id \in Ids, pid \in ProjectInputs \ {None}, completed \in {Absent, "true"} :
            api_update_task(u, id, Absent, Absent, Absent, completed,
                            [NoMore EXCEPT !.project_id = pid])
    \/ \E u \in Users, id \in Ids, pid \in ProjectInputs :
            edit_task(u, id, "a", Absent, Absent, [NoForm EXCEPT !.project_id = pid])

SpecProject == InitProject /\ [][NextProject]_vars

\* deleting users: the registered users create tasks, comments,
\* attachments and projects, and users are deleted
InitUser ==
    /\ tasks = << >>
    /\ comments = {}
    /\ attachments = {}
    /\ budget = MaxOpsUser
    /\ last = NoRequest
    /\ AtRest

NextUser ==
    \/ \E u \in UserIds, parent \in ParentInputs : api_create_task(u, "a", Absent, parent, NoMore)
    \/ \E u \in UserIds, id \in Ids : add_comment(u, id, "c")
    \/ \E u \in UserIds, id \in Ids : add_attachment(u, id)
    \/ \E u \in UserIds : api_create_project(u, "p")
    \/ \E u \in Users : delete_user(u)

SpecUser == InitUser /\ [][NextUser]_vars

\* registration: the users table is empty, and registrations are handled
\* side by side, each in its own session
InitRegister ==
    /\ tasks = << >>
    /\ comments = {}
    /\ attachments = {}
    /\ budget = MaxOpsRegister
    /\ last = NoRequest
    /\ users = {}
    /\ projects = {}
    /\ call = NoCall
    /\ inflight = << >>

NextRegister ==
    \/ \E username \in UsernameInputs, email \in EmailInputs : register(username, email)
    \/ \E slot \in 1..MaxInFlight : register_commit(slot)

SpecRegister == InitRegister /\ [][NextRegister]_vars

\* a delete beside a comment or a new subtask: tasks are created, and a
\* task is deleted while a comment on it or a subtask of it is on its way
InitRace ==
    /\ tasks = << >>
    /\ comments = {}
    /\ attachments = {}
    /\ budget = MaxOpsRace
    /\ last = NoRequest
    /\ AtRest

NextRace ==
    \/ \E u \in Users : api_create_task(u, "a", Absent, 0, NoMore)
    \/ \E u \in Users, id \in Ids : add_comment_lookup(u, id)
    \/ \E slot \in 1..MaxInFlight : add_comment_commit(slot)
    \/ \E u \in Users, parent \in Ids : api_create_subtask(u, parent)
    \/ \E slot \in 1..MaxInFlight : api_create_subtask_commit(slot)
    \/ \E u \in Users, id \in Ids : delete_task(u, id)
    \/ \E u \in Users, id \in Ids : api_delete_task(u, id)

SpecRace == InitRace /\ [][NextRace]_vars

\* two requests on one row: tasks are created, and API updates of title
\* or status and toggles of a task are handled side by side, each in its
\* own session; tasks are deleted
InitRow ==
    /\ tasks = << >>
    /\ comments = {}
    /\ attachments = {}
    /\ budget = MaxOpsRow
    /\ last = NoRequest
    /\ AtRest

NextRow ==
    \/ \E u \in Users, parent \in ParentInputs : api_create_task(u, "a", Absent, parent, NoMore)
    \/ \E u \in Users, id \in Ids, title \in {Absent, "b"}, status \in {Absent, "in_progress"} :
            api_update_task_lookup(u, id, title, status)
    \/ \E slot \in 1..MaxInFlight : api_update_task_commit(slot)
    \/ \E u \in Users, id \in Ids : toggle_complete_lookup(u, id)
    \/ \E slot \in 1..MaxInFlight : toggle_complete_commit(slot)
    \/ \E u \in Users, id \in Ids : api_delete_task(u, id)

SpecRow == InitRow /\ [][NextRow]_vars

\* owner and parent: tasks are created under any parent, updated through
\* the API and the form, toggled, commented on and deleted
InitFrame ==
    /\ tasks = << >>
    /\ comments = {}
    /\ attachments = {}
    /\ budget = MaxOpsFrame
    /\ last = NoRequest
    /\ AtRest

NextFrame ==
    \/ \E u \in Users, parent \in ParentInputs : api_create_task(u, "a", Absent, parent, NoMore)
    \/ \E u \in Users, id \in Ids, status \in {Absent, "done"}, completed \in {Absent, "true"} :
            api_update_task(u, id, "a", Absent, status, completed, NoMore)
    \/ \E u \in Users, id \in Ids : edit_task(u, id, "a", Absent, Absent, NoForm)
    \/ \E u \in Users, id \in Ids : toggle_complete(u, id)
    \/ \E u \in Users, id \in Ids : add_comment(u, id, "c")
    \/ \E u \in Users, id \in Ids : delete_task(u, id)
    \/ \E u \in Users, id \in Ids : api_delete_task(u, id)

SpecFrame == InitFrame /\ [][NextFrame]_vars

\* ---------------------------------------------------------------- properties

\* the direct and indirect subtasks of a task
RECURSIVE Below(_, _, _)
Below(ts, frontier, seen) ==
    LET next == UNION {Subtasks(ts, i) : i \in frontier} \ seen
    IN IF next = {} THEN seen ELSE Below(ts, next, seen \cup next)

Descendants(ts, id) == Below(ts, {id}, {})

C3_CascadeReachesEverySubtask ==
    [][(last'.op = "toggle_complete" /\ last'.code = 302
          /\ ~tasks[last'.id].is_completed) =>
         \A d \in Descendants(tasks', last'.id) :
             /\ tasks'[d].is_completed
             /\ tasks'[d].status = "done"
             /\ tasks'[d].completed_at # "None"]_vars

\* C4: every completed task has status DONE.
C4_CompletedImpliesDone ==
    \A i \in DOMAIN tasks : tasks[i].is_completed => tasks[i].status = "done"

\* C5: a task has a completion time exactly when its completion flag is set.
C5_CompletedAtIffCompleted ==
    \A i \in DOMAIN tasks : tasks[i].is_completed <=> tasks[i].completed_at # "None"

\* an API update has just changed a task that is completed, and one that
\* is not stands beside it
C5_Witness ==
    /\ last.op = "api_update_task" /\ last.code = 200
    /\ last.id \in last.updated
    /\ tasks[last.id].is_completed /\ tasks[last.id].completed_at = "utcnow"
    /\ \E j \in DOMAIN tasks : ~tasks[j].is_completed /\ tasks[j].completed_at = "None"

\* C6: an API update whose body sets is_completed to true leaves the task
\* with status DONE and a completion time; one that sets it to false leaves
\* it with a status other than DONE and no completion time.
C6_UpdateSynchronizesStatus ==
    [][\A u \in Users, id \in Ids, status \in StatusInputs, completed \in {"true", "false"} :
         (api_update_task(u, id, Absent, Absent, status, completed, NoMore) /\ last'.code = 200) =>
            IF completed = "true"
            THEN tasks'[id].status = "done" /\ tasks'[id].completed_at # "None"
            ELSE tasks'[id].status # "done" /\ tasks'[id].completed_at = "None"]_vars

\* C7: every task with a parent references a task that exists and belongs
\* to the same user.
C7_ParentExistsSameUser ==
    \A i \in DOMAIN tasks :
        tasks[i].parent_task_id # 0 =>
            /\ tasks[i].parent_task_id \in DOMAIN tasks
            /\ tasks[tasks[i].parent_task_id].user_id = tasks[i].user_id

\* C8: a create request (web or API) whose parent_task_id is no task of the
\* calling user fails and stores no task.
C8_CreateRejectsForeignParent ==
    [][\A u \in Users, title \in TitleInputs, priority \in PriorityInputs,
          parent \in ParentInputs :
         ( /\ api_create_task(u, title, priority, parent, NoMore)
              \/ create_task(u, title, priority, parent, NoForm)
           /\ parent # 0
           /\ ~(parent \in DOMAIN tasks /\ tasks[parent].user_id = u) )
         => (tasks' = tasks /\ last'.outcome = "error")]_vars

\* C9: a request of one user returns no task of another user and changes
\* no task of another user.
C9_OwnershipIsolation ==
    [][ /\ \A i \in DOMAIN tasks :
              tasks[i].user_id # last'.user =>
                  i \in DOMAIN tasks' /\ tasks'[i] = tasks[i]
        /\ \A i \in last'.returned \cap DOMAIN tasks' :
              tasks'[i].user_id = last'.user ]_vars

\* the handlers that address one task by its id
IdHandlers ==
    {"api_get_task", "api_update_task", "api_delete_task", "view_task",
     "edit_task", "delete_task", "toggle_complete", "add_comment"}

\* C10: a request that addresses a task by an id that does not exist or
\* that is another user's is answered 404 and changes no stored task,
\* comment or attachment.
C10_ForeignIdIsNotFound ==
    [][(last'.op \in IdHandlers
          /\ ~(last'.id \in DOMAIN tasks /\ tasks[last'.id].user_id = last'.user)) =>
         /\ last'.code = 404
         /\ tasks' = tasks /\ comments' = comments /\ attachments' = attachments]_vars

\* another user has asked to delete a task that carries a comment, and has
\* been answered 404
C10_Witness ==
    /\ last.op \in {"delete_task", "api_delete_task"} /\ last.code = 404
    /\ last.id \in DOMAIN tasks /\ tasks[last.id].user_id # last.user
    /\ \E c \in comments : c.task_id = last.id

\* C11: when a step of the web delete cascade raises, nothing of the
\* cascade is persisted: the tasks (the task itself and the parent of its
\* subtasks), the comments and the attachments are as before the request.
C11_FailedDeletePersistsNothing ==
    [][(last'.op = "delete_task" /\ last'.outcome = "error" /\ last'.code = 302) =>
         /\ tasks' = tasks
         /\ comments' = comments
         /\ attachments' = attachments]_vars

\* a web delete has failed on a task that has a subtask and a comment or
\* an attachment, and all of them are still there
C11_Witness ==
    /\ last.op = "delete_task" /\ last.outcome = "error" /\ last.code = 302
    /\ last.id \in DOMAIN tasks
    /\ \E c \in DOMAIN tasks : c # last.id /\ tasks[c].parent_task_id = last.id
    /\ \/ \E c \in comments : c.task_id = last.id
       \/ \E a \in attachments : a.task_id = last.id

\* C12: when toggle-complete has marked a completed task T incomplete, T
\* is not completed, has status TODO and no completion time, and the
\* completion flag, status and completion time of every other task, T's
\* direct and indirect subtasks included, are what they were.
C12_MarkIncompleteTouchesOnlyTheTask ==
    [][(last'.op = "toggle_complete" /\ last'.code = 302
          /\ tasks[last'.id].is_completed) =>
         LET T == last'.id IN
         /\ ~tasks'[T].is_completed
         /\ tasks'[T].status = "todo"
         /\ tasks'[T].completed_at = "None"
         /\ \A i \in DOMAIN tasks \ {T} :
               /\ tasks'[i].is_completed = tasks[i].is_completed
               /\ tasks'[i].status = tasks[i].status
               /\ tasks'[i].completed_at = tasks[i].completed_at]_vars

\* a toggle has just marked a task incomplete, and a subtask of it is
\* still completed
C12_Witness ==
    /\ last.op = "toggle_complete" /\ last.code = 302
    /\ last.updated = {last.id}
    /\ ~tasks[last.id].is_completed /\ tasks[last.id].status = "todo"
    /\ \E d \in Descendants(tasks, last.id) \ {last.id} :
          tasks[d].is_completed /\ tasks[d].status = "done"

\* C19: Task.mark_completed on a task that is already completed changes
\* the completion flag and the status of no task, the task and its
\* subtasks included.
C19_MarkCompletedAgainChangesNothing ==
    [][(last'.op = "mark_completed") =>
         \A i \in DOMAIN tasks :
             /\ tasks'[i].is_completed = tasks[i].is_completed
             /\ tasks'[i].status = tasks[i].status]_vars

\* C13: the parent_task_id relation is acyclic: no task is its own parent
\* and no task is, through its parent and the parents above it, its own
\* ancestor.
C13_ParentRelationAcyclic ==
    \A i \in DOMAIN tasks : i \notin Descendants(tasks, i)

\* C14: the progress_percentage returned for a task with n > 0 subtasks of
\* which c are completed is 100*c/n truncated to an integer, and within
\* 0..100; for a task without subtasks it is 100 if the task is completed
\* and 0 otherwise.
C14_ProgressIsTruncatedPercentage ==
    [][(last'.op = "api_get_task" /\ last'.code = 200) =>
         LET id == last'.id
             n == Cardinality(Subtasks(tasks, id))
             c == Cardinality({k \in Subtasks(tasks, id) : tasks[k].is_completed})
             progress == last'.data[id].progress_percentage
         IN /\ progress \in 0..100
            /\ progress = IF n > 0 THEN (100 * c) \div n
                          ELSE IF tasks[id].is_completed THEN 100 ELSE 0]_vars

\* C15: when an API update has set the tags of a task from a list L, the
\* tags the response reads back from the task are L with every entry
\* trimmed and the empty entries left out, in the same order; when it has
\* set them from [] or null, the tags column is the empty string and the
\* tags read back are [].
C15_TagsRoundTrip ==
    [][(last'.op = "api_update_task" /\ last'.code = 200) =>
         LET u == last'.user
             id == last'.id
         IN \A tg \in ApiTagsInputs :
              ( /\ tg.present
                /\ api_update_task(u, id, Absent, Absent, Absent, Absent,
                                   [NoMore EXCEPT !.tags = tg]) ) =>
                 IF tg.value = None \/ tg.value[1] = << >>
                 THEN tasks'[id].tags = Some(<< >>) /\ last'.data[id].tags = << >>
                 ELSE last'.data[id].tags = StripNonEmpty(tg.value[1])]_vars

\* C16: a create request, web or API, without a title or with an empty
\* title is rejected with a validation error and stores no task.
C16_CreateRequiresTitle ==
    [][(last'.op \in {"api_create_task", "create_task"}) =>
         \A title \in {Absent, ""}, priority \in PriorityInputs :
            ( \/ \E more \in ValidateMore :
                    api_create_task(last'.user, title, priority, 0, more)
              \/ \E form \in ValidateForm :
                    create_task(last'.user, title, priority, 0, form) ) =>
               /\ tasks' = tasks
               /\ last'.outcome = "error"
               /\ last'.message \in {"Missing required fields: title",
                                     "Task title is required"}]_vars

\* a create request without a title has just been rejected, and the tasks
\* stored before it are all there is
C16_Witness ==
    /\ last.op \in {"api_create_task", "create_task"}
    /\ last.outcome = "error"
    /\ last.message \in {"Missing required fields: title", "Task title is required"}
    /\ DOMAIN tasks # {}

C18_HoursNotNegative ==
    \A i \in DOMAIN tasks : tasks[i].estimated_hours >= 0 /\ tasks[i].actual_hours >= 0

C29_UpdateCompletesOnlyTheTask ==
    [][(last'.op = "api_update_task" /\ last'.code = 200
          /\ api_update_task(last'.user, last'.id, Absent, Absent, Absent, "true", NoMore)) =>
         \A i \in DOMAIN tasks \ {last'.id} :
             /\ tasks'[i].is_completed = tasks[i].is_completed
             /\ tasks'[i].status = tasks[i].status
             /\ tasks'[i].completed_at = tasks[i].completed_at]_vars

\* an API update has just completed a task, and a subtask of it is still
\* not completed
C29_Witness ==
    /\ last.op = "api_update_task" /\ last.code = 200
    /\ last.updated = {last.id}
    /\ tasks[last.id].is_completed /\ tasks[last.id].status = "done"
    /\ \E d \in Descendants(tasks, last.id) \ {last.id} :
          ~tasks[d].is_completed /\ tasks[d].completed_at = "None"

\* C28: when Task.mark_completed has run on a task T that has at least
\* one subtask and has been committed, the progress of T is 100, whichever
\* of the subtasks were completed before.
C28_ProgressIsFullAfterMarkCompleted ==
    [][( /\ \/ last'.op = "mark_completed"
            \/ last'.op = "toggle_complete" /\ last'.code = 302
                 /\ ~tasks[last'.id].is_completed
         /\ Subtasks(tasks', last'.id) # {} ) =>
         get_progress_percentage(tasks', last'.id) = 100]_vars

\* a toggle has just completed a task of which one subtask was completed
\* before and another was not
C28_Witness ==
    /\ last.op = "toggle_complete" /\ last.code = 302
    /\ tasks[last.id].is_completed
    /\ \E c, d \in Subtasks(tasks, last.id) \ {last.id} :
          /\ c \in last.updated /\ d \notin last.updated
          /\ tasks[c].is_completed /\ tasks[d].is_completed
    /\ get_progress_percentage(tasks, last.id) = 100

\* C25: Task.mark_completed terminates on every parent/child graph, with
\* cycles and tasks that are their own parent: a call that is running
\* returns, and no task is marked twice by one call.
C25_MarkCompletedTerminates ==
    /\ [](\A i, j \in DOMAIN call.marked : i # j => call.marked[i] # call.marked[j])
    /\ (call.stack # << >>) ~> (call.stack = << >>)

\* a call has returned that went round a cycle: it started on a task that
\* is below itself, marked another task of the cycle, and came back to the
\* first, which it skipped
C25_Witness ==
    /\ call.stack = << >>
    /\ Len(call.marked) > 1
    /\ last.op = "mark_completed" /\ last.outcome = "success"
    /\ call.marked[1] \in Subtasks(tasks, call.marked[Len(call.marked)])
    /\ \A i \in DOMAIN call.marked : tasks[call.marked[i]].is_completed

C26_TitleIsNeverEmpty ==
    /\ [](\A i \in DOMAIN tasks : tasks[i].title # "")
    /\ [][(last'.op \in {"api_update_task", "edit_task"}
            /\ FindTask(tasks, last'.user, last'.id)
            /\ \/ \E status \in {Absent, "done"} :
                     api_update_task(last'.user, last'.id, "", Absent, status, Absent, NoMore)
               \/ \E title \in {Absent, "", " "} :
                     edit_task(last'.user, last'.id, title, Absent, Absent, NoForm)) =>
             /\ last'.outcome = "error"
             /\ tasks'[last'.id].title = tasks[last'.id].title]_vars

\* C23: every task with a project_id references a project of the task's
\* own user, so that the statistics and the completion of a project count
\* the tasks of its owner only.
C23_ProjectOfOwnUser ==
    /\ \A i \in DOMAIN tasks :
          tasks[i].project_id # 0 =>
              \E q \in projects : q.id = tasks[i].project_id /\ q.user_id = tasks[i].user_id
    /\ \A q \in projects :
          LET own == [i \in {j \in DOMAIN tasks : tasks[j].user_id = q.user_id} |-> tasks[i]]
          IN /\ get_task_stats(tasks, q.id) = get_task_stats(own, q.id)
             /\ is_completed(tasks, q.id) = is_completed(own, q.id)

C27_UsersStayUnique ==
    /\ [](\A r1, r2 \in users :
            (r1.username = r2.username \/ r1.email = r2.email) => r1 = r2)
    /\ [][\A slot \in DOMAIN inflight :
            ( /\ register_commit(slot)
              /\ \E r \in users : r.username = inflight[slot].username
                                  \/ r.email = inflight[slot].email ) =>
               (users' = users /\ last'.outcome = "error")]_vars

\* a registration that had passed the existence checks has just failed at
\* its commit: another with the same username or email was stored first
C27_Witness ==
    /\ last.op = "register" /\ last.outcome = "error"
    /\ last.message = "An error occurred during registration. Please try again."
    /\ Cardinality(users) = 1
    /\ inflight = << >>

\* C22: when a delete of a task and the requests beside it (a comment on
\* the task, a new subtask of it) have all finished, no comment has the
\* task_id and no task the parent_task_id of a task that does not exist.
C22_NoReferenceToDeletedTask ==
    (inflight = << >>) =>
        /\ \A c \in comments : c.task_id \in DOMAIN tasks
        /\ \A i \in DOMAIN tasks :
              tasks[i].parent_task_id # 0 => tasks[i].parent_task_id \in DOMAIN tasks

\* C21: when requests of one user change the same task side by side, the
\* stored row is the row of the request that committed last: after every
\* commit of an API update or a toggle, the row of the addressed task is
\* the row that request held in its session, never columns of one request
\* beside columns of another.
C21_LastWriteWinsByRow ==
    [][\A slot \in DOMAIN inflight :
         ( /\ api_update_task_commit(slot) \/ toggle_complete_commit(slot)
           /\ last'.outcome = "success" ) =>
            tasks'[inflight[slot].id] = SessionRow(inflight[slot])]_vars
====
